---- MODULE Spec2Model ----
(***************************************************************************)
(* Model of scripts/run_question_coding.py: the question-coding training   *)
(* loop (batch-size scheduling over a cyclic loader, validation passes,    *)
(* checkpoint-manager steps, qualitative printing) and the loss            *)
(* aggregation of do_iteration.                                            *)
(*                                                                         *)
(* Spec      the __main__ training run, one action per block of the loop.  *)
(* LossSpec  do_iteration's loss aggregation on bounded batches of         *)
(*           per-example losses.                                           *)
(***************************************************************************)
EXTENDS Integers, Sequences, FiniteSets, TLC

VARIABLES
    config,             \* config[...] entries read by the loop
    args,               \* args.checkpoint_every
    data,               \* sizes of train_dataset / val_dataset
    pc,                 \* position in __main__
    iteration,          \* loop variable of the training loop
    batch_size,         \* batch_size local
    train_dataloader,   \* itertools.cycle(DataLoader(...)): its batch size and cursor
    loaderBuilds,       \* iterations at which train_dataloader was re-initialised
    batch,              \* the `batch` local (shared by training and validation)
    valIdx,             \* number of validation batches consumed by the running pass
    outDict,            \* the `__iteration_output_dict` local
    training,           \* nn.Module.training of each model
    params,             \* number of optimizer updates applied to each model
    lastCall,           \* what the most recent do_iteration call did
    counters,           \* calls of do_iteration (train), optimizer.step, lr_scheduler.step
    valPassAt,          \* iterations at which a validation pass ran to exhaustion
    managers,           \* the two CheckpointManagers: step log, save_best count
    printed,            \* what the last qualitative print showed
    writerClosed,       \* summary_writer.close() was called
    raised,             \* the uncaught exception that ended the run, or "none"
    lossIn,             \* LossSpec: the batch of per-example losses and ssl_alpha
    lossOut             \* LossSpec: the "loss" dictionary do_iteration returned

vars == <<config, args, data, pc, iteration, batch_size, train_dataloader,
          loaderBuilds, batch, valIdx, outDict, training, params, lastCall,
          counters, valPassAt, managers, printed, writerClosed, raised, lossIn,
          lossOut>>

(***************************************************************************)
(* Bounds and input sets                                                   *)
(***************************************************************************)
MaxIter == 3
MaxCkpt == 2
MaxSteps == 2

InitialBsValues == {1, 2, 12}
BsGammaValues == {1, 2}
TrainSizes == {1, 2, 3}
ValSizes == {0, 1, 3, 12}

MaxBatch == 3
LossValues == {0, 1, 3}
AlphaValues == {0, 1, 2}

RECURSIVE SeqsUpTo(_, _)
SeqsUpTo(S, n) ==
    IF n = 0 THEN {<<>>}
    ELSE LET shorter == SeqsUpTo(S, n - 1)
         IN  shorter \cup {Append(s, x) : s \in shorter, x \in S}

Min(a, b) == IF a <= b THEN a ELSE b

RECURSIVE Pow(_, _)
Pow(b, e) == IF e = 0 THEN 1 ELSE b * Pow(b, e - 1)

Range(s) == {s[k] : k \in 1..Len(s)}

(***************************************************************************)
(* Data loaders                                                            *)
(***************************************************************************)
\* len(DataLoader(dataset, batch_size)) with drop_last left False
NumBatches(n, bs) == (n + bs - 1) \div bs

\* number of examples in the k-th batch (1-based) of such a loader
BatchLen(n, bs, k) == Min(bs, n - (k - 1) * bs)

\* DataLoader(train_dataset, batch_size=..., sampler=train_sampler) wrapped in cycle
NewCycle(bs) == [bs |-> bs, pos |-> 1]

\* next(train_dataloader) on an itertools.cycle: the batch at the cursor, and the
\* cursor wrapping round after the last batch of the underlying loader
CycleNext(dl) ==
    LET nb == NumBatches(data.train, dl.bs)
    IN  [item |-> [from |-> "train", index |-> dl.pos,
                   len |-> BatchLen(data.train, dl.bs, dl.pos)],
         dl   |-> [dl EXCEPT !.pos = IF dl.pos >= nb THEN 1 ELSE dl.pos + 1]]

\* val_dataloader keeps the batch size it was built with
NumValBatches == NumBatches(data.val, config.initial_bs)

ValBatchAt(k) == [from |-> "val", index |-> k,
                  len |-> BatchLen(data.val, config.initial_bs, k)]

NoBatch == [from |-> "none", index |-> 0, len |-> 0]

(***************************************************************************)
(* Models, optimizer, do_iteration (control part)                          *)
(***************************************************************************)
Models == {"prior", "pg", "qr"}

\* mutant: the optimizer is built over the parameters of all three models
OptimizerParamsAll == Models

\* optim.Adam(itertools.chain(program_generator.parameters(),
\*                            question_reconstructor.parameters()), ...)
OptimizerParams == {"pg", "qr"}

\* optimizer.step(): every model whose parameters the optimizer holds is updated
OptimizerStep(p) == [m \in Models |-> IF m \in OptimizerParams THEN p[m] + 1 ELSE p[m]]

\* do_iteration(config, batch, None, program_generator, question_reconstructor,
\* optimizer): which of zero_grad / backward / optimizer.step it performs, whether it
\* dereferences a missing optimizer, and the parameters it leaves behind
DoIteration(kind, hasOptimizer) ==
    LET zg == training["pg"]
        bw == training["pg"] /\ training["qr"]
    IN  [kind      |-> kind,
         pgMode    |-> training["pg"],
         qrMode    |-> training["qr"],
         zero_grad |-> zg,
         backward  |-> bw,
         step      |-> bw,
         error     |-> (zg \/ bw) /\ ~hasOptimizer,
         params    |-> IF bw THEN OptimizerStep(params) ELSE params]

NoCall == [kind |-> "none", pgMode |-> TRUE, qrMode |-> TRUE, zero_grad |-> FALSE,
           backward |-> FALSE, step |-> FALSE, error |-> FALSE,
           params |-> [m \in Models |-> 0]]

(***************************************************************************)
(* Batch size scheduling                                                   *)
(***************************************************************************)
\* `iteration in config["bs_steps"]` on a list
InBsSteps(it) == \E k \in 1..Len(config.bs_steps) : config.bs_steps[k] = it

\* mutant: the batch size is multiplied once per matching entry of bs_steps
ScheduledBatchSizePerEntry(bs, it) ==
    bs * Pow(config.bs_gamma,
             Cardinality({k \in 1..Len(config.bs_steps) : config.bs_steps[k] = it}))

\* the batch size after the scheduling step of iteration `it`
ScheduledBatchSize(bs, it) == IF InBsSteps(it) THEN bs * config.bs_gamma ELSE bs

(***************************************************************************)
(* Metrics and checkpoint managers                                         *)
(***************************************************************************)
\* model.get_metrics()["perplexity"]: whose perplexity it is, and when it was read
GetMetrics(m) == [model |-> m, iteration |-> iteration, batches |-> valIdx,
                  passDone |-> iteration \in valPassAt]

\* mutant: the program generator's manager is stepped with the other model's metric
PgStepMetricSwapped == GetMetrics("qr")

\* the metric each manager is stepped with
PgStepMetric == GetMetrics("pg")
QrStepMetric == GetMetrics("qr")

\* CheckpointManager.step(metric)
ManagerStep(mgr, metric) == [mgr EXCEPT !.steps = Append(@, metric)]

\* CheckpointManager.save_best()
ManagerSaveBest(mgr) == [mgr EXCEPT !.saved = @ + 1, !.savedAfter = Len(mgr.steps)]

\* number of examples the qualitative print loops over
NumQualitative == 20

(***************************************************************************)
(* The training run                                                        *)
(***************************************************************************)
LossIdle == [batch |-> <<>>, ssl_alpha |-> 0]
OutIdle == [set |-> FALSE, reconstruction |-> <<0, 1>>, supervision |-> <<0, 1>>,
            objective |-> <<0, 1>>]

\* the state __main__ is in when it reaches the training loop
Setup ==
    /\ iteration = 0
    /\ batch_size = config.initial_bs
    /\ train_dataloader = NewCycle(config.initial_bs)
    /\ loaderBuilds = {}
    /\ batch = NoBatch
    /\ valIdx = 0
    /\ outDict = NoBatch
    /\ training = [m \in Models |-> m # "prior"]
    /\ params = [m \in Models |-> 0]
    /\ lastCall = NoCall
    /\ counters = [train_calls |-> 0, opt_steps |-> 0, lr_steps |-> 0]
    /\ valPassAt = {}
    /\ managers = [m \in {"pg", "qr"} |-> [steps |-> <<>>, saved |-> 0, savedAfter |-> 0]]
    /\ printed = [count |-> 0, batch |-> NoBatch, pred |-> NoBatch]
    /\ writerClosed = FALSE
    /\ raised = "none"

Init ==
    /\ config \in [num_iterations : 0..MaxIter,
                   bs_steps : SeqsUpTo(1..MaxIter, MaxSteps),
                   bs_gamma : BsGammaValues,
                   initial_bs : InitialBsValues]
    /\ args \in [checkpoint_every : 1..MaxCkpt]
    /\ data \in [train : TrainSizes, val : ValSizes]
    /\ pc = "loop"
    /\ Setup
    /\ lossIn = LossIdle
    /\ lossOut = OutIdle

\* for iteration in range(1, num_iterations + 1): batch = next(train_dataloader);
\* do_iteration(..., optimizer); log the losses and hyperparameters
TrainStep ==
    /\ pc = "loop"
    /\ iteration < config.num_iterations
    /\ NumBatches(data.train, train_dataloader.bs) >= 1
    /\ LET nx == CycleNext(train_dataloader)
           call == DoIteration("train", TRUE)
       IN  /\ ~call.error
           /\ iteration' = iteration + 1
           /\ batch' = nx.item
           /\ train_dataloader' = nx.dl
           /\ lastCall' = call
           /\ params' = call.params
           /\ counters' = [counters EXCEPT !.train_calls = @ + 1,
                               !.opt_steps = IF call.step THEN @ + 1 ELSE @]
    /\ pc' = "schedule"
    /\ UNCHANGED <<config, args, data, batch_size, loaderBuilds, valIdx, outDict,
                   training, valPassAt, managers, printed, writerClosed,
                   raised, lossIn, lossOut>>

\* lr_scheduler.step(); batch size scheduling; then the checkpoint_every test
Schedule ==
    /\ pc = "schedule"
    /\ counters' = [counters EXCEPT !.lr_steps = @ + 1]
    /\ batch_size' = ScheduledBatchSize(batch_size, iteration)
    /\ IF InBsSteps(iteration)
       THEN /\ train_dataloader' = NewCycle(batch_size')
            /\ loaderBuilds' = loaderBuilds \cup {iteration}
       ELSE UNCHANGED <<train_dataloader, loaderBuilds>>
    /\ pc' = IF iteration % args.checkpoint_every = 0 THEN "val_begin" ELSE "loop"
    /\ UNCHANGED <<config, args, data, iteration, batch, valIdx, outDict, training,
                   params, lastCall, valPassAt, managers, printed, writerClosed,
                   raised, lossIn, lossOut>>

\* mutant: only the program generator is switched to evaluation mode
EvalModesPgOnly(t) == [t EXCEPT !["pg"] = FALSE]

\* program_generator.eval(); question_reconstructor.eval()
EvalModes(t) == [t EXCEPT !["pg"] = FALSE, !["qr"] = FALSE]

\* program_generator.train(); question_reconstructor.train()
TrainModes(t) == [t EXCEPT !["pg"] = TRUE, !["qr"] = TRUE]

\* both models to evaluation mode; start of the for loop over val_dataloader
ValBegin ==
    /\ pc = "val_begin"
    /\ training' = EvalModes(training)
    /\ valIdx' = 0
    /\ pc' = "val_loop"
    /\ UNCHANGED <<config, args, data, iteration, batch_size, train_dataloader,
                   loaderBuilds, batch, outDict, params, lastCall, counters,
                   valPassAt, managers, printed, writerClosed, raised, lossIn,
                   lossOut>>

\* one round of `for i, batch in enumerate(tqdm(val_dataloader))`
ValBatch ==
    /\ pc = "val_loop"
    /\ valIdx < NumValBatches
    /\ LET b == ValBatchAt(valIdx + 1)
           call == DoIteration("val", FALSE)
       IN  /\ ~call.error
           /\ batch' = b
           /\ outDict' = b
           /\ lastCall' = call
           /\ params' = call.params
           /\ counters' = [counters EXCEPT !.opt_steps = IF call.step THEN @ + 1 ELSE @]
    /\ valIdx' = valIdx + 1
    /\ UNCHANGED <<config, args, data, pc, iteration, batch_size, train_dataloader,
                   loaderBuilds, training, valPassAt, managers, printed,
                   writerClosed, raised, lossIn, lossOut>>

\* the validation loader is exhausted
ValLoopExit ==
    /\ pc = "val_loop"
    /\ valIdx >= NumValBatches
    /\ valPassAt' = valPassAt \cup {iteration}
    /\ pc' = "qualitative"
    /\ UNCHANGED <<config, args, data, iteration, batch_size, train_dataloader,
                   loaderBuilds, batch, valIdx, outDict, training, params, lastCall,
                   counters, managers, printed, writerClosed, raised, lossIn,
                   lossOut>>

\* the qualitative loop reads `batch` and `__iteration_output_dict`: the latter is
\* unbound until a validation batch has been processed
QualitativeFails ==
    /\ Min(batch.len, NumQualitative) > 0
    /\ (outDict.from = "none" \/ outDict.len < Min(batch.len, NumQualitative))

\* for j in range(min(len(batch["question"]), 20)): print four lines of example j
Qualitative ==
    /\ pc = "qualitative"
    /\ ~QualitativeFails
    /\ printed' = [count |-> Min(batch.len, NumQualitative), batch |-> batch,
                   pred |-> outDict]
    /\ pc' = "metrics"
    /\ UNCHANGED <<config, args, data, iteration, batch_size, train_dataloader,
                   loaderBuilds, batch, valIdx, outDict, training, params, lastCall,
                   counters, valPassAt, managers, writerClosed, raised, lossIn,
                   lossOut>>

\* get_metrics of both models, one step per manager, both models back to train()
MetricsAndCheckpoint ==
    /\ pc = "metrics"
    /\ managers' = [managers EXCEPT !["pg"] = ManagerStep(@, PgStepMetric),
                                    !["qr"] = ManagerStep(@, QrStepMetric)]
    /\ training' = TrainModes(training)
    /\ pc' = "loop"
    /\ UNCHANGED <<config, args, data, iteration, batch_size, train_dataloader,
                   loaderBuilds, batch, valIdx, outDict, params, lastCall, counters,
                   valPassAt, printed, writerClosed, raised, lossIn, lossOut>>

\* after the loop: save_best on both managers, summary_writer.close()
AfterTraining ==
    /\ pc = "loop"
    /\ iteration >= config.num_iterations
    /\ managers' = [m \in {"pg", "qr"} |-> ManagerSaveBest(managers[m])]
    /\ writerClosed' = TRUE
    /\ pc' = "done"
    /\ UNCHANGED <<config, args, data, iteration, batch_size, train_dataloader,
                   loaderBuilds, batch, valIdx, outDict, training, params, lastCall,
                   counters, valPassAt, printed, raised, lossIn, lossOut>>

\* an uncaught exception ends the run: StopIteration from an exhausted cycle,
\* AttributeError on a missing optimizer, NameError / IndexError in the qualitative loop
Raise ==
    /\ \/ /\ pc = "loop"
          /\ iteration < config.num_iterations
          /\ NumBatches(data.train, train_dataloader.bs) < 1
          /\ raised' = "StopIteration"
       \/ /\ pc = "loop"
          /\ iteration < config.num_iterations
          /\ NumBatches(data.train, train_dataloader.bs) >= 1
          /\ DoIteration("train", TRUE).error
          /\ raised' = "AttributeError"
       \/ /\ pc = "val_loop"
          /\ valIdx < NumValBatches
          /\ DoIteration("val", FALSE).error
          /\ raised' = "AttributeError"
       \/ /\ pc = "qualitative"
          /\ QualitativeFails
          /\ raised' = IF outDict.from = "none" THEN "NameError" ELSE "IndexError"
    /\ pc' = "error"
    /\ UNCHANGED <<config, args, data, iteration, batch_size, train_dataloader,
                   loaderBuilds, batch, valIdx, outDict, training, params, lastCall,
                   counters, valPassAt, managers, printed, writerClosed,
                   lossIn, lossOut>>

Next ==
    \/ TrainStep
    \/ Schedule
    \/ ValBegin
    \/ ValBatch
    \/ ValLoopExit
    \/ Qualitative
    \/ MetricsAndCheckpoint
    \/ AfterTraining
    \/ Raise

Spec == Init /\ [][Next]_vars

(***************************************************************************)
(* do_iteration: loss aggregation                                          *)
(***************************************************************************)
RECURSIVE Gcd(_, _)
Gcd(a, b) == IF b = 0 THEN a ELSE Gcd(b, a % b)

\* the rational n/d (n >= 0, d > 0) in lowest terms
Frac(n, d) == LET g == Gcd(n, d) IN <<n \div g, d \div g>>

RAdd(x, y) == Frac(x[1] * y[2] + y[1] * x[2], x[2] * y[2])

RScale(k, x) == Frac(k * x[1], x[2])

RECURSIVE SumSeq(_)
SumSeq(s) == IF s = <<>> THEN 0 ELSE s[1] + SumSeq(Tail(s))

\* torch.mean over the batch dimension
Mean(v) == Frac(SumSeq(v), Len(v))

\* mutant: the mask is ignored
MaskedMeanUnmasked(v, mask) == Mean(v)

\* 1 / eps of masked_mean's clamp of the mask count
EpsInverse == 1000000

\* allennlp_util.masked_mean(vector, mask, dim=0):
\* sum(vector * mask) / clamp(sum(mask), min=eps)
MaskedMean(v, mask) ==
    LET value_sum == SumSeq([k \in 1..Len(v) |-> v[k] * mask[k]])
        value_count == SumSeq(mask)
    IN  IF value_count = 0 THEN Frac(value_sum * EpsInverse, 1)
        ELSE Frac(value_sum, value_count)

\* __qr_batch_loss = torch.mean(__qr_output_dict["loss"])
QrBatchLoss(b) == Mean([k \in 1..Len(b) |-> b[k].qr])

\* __pg_batch_loss = masked_mean(__pg_output_dict["loss"], batch["supervision"], dim=0)
PgBatchLoss(b) ==
    MaskedMean([k \in 1..Len(b) |-> b[k].pg], [k \in 1..Len(b) |-> b[k].supervision])

\* loss_objective = __qr_batch_loss + config["ssl_alpha"] * __pg_batch_loss
LossObjective(in) == RAdd(QrBatchLoss(in.batch), RScale(in.ssl_alpha, PgBatchLoss(in.batch)))

\* the "loss" dictionary do_iteration returns
LossDict(in) ==
    [set            |-> TRUE,
     reconstruction |-> PgBatchLoss(in.batch),
     supervision    |-> QrBatchLoss(in.batch),
     objective      |-> LossObjective(in)]

Example == [qr : LossValues, pg : LossValues, supervision : {0, 1}]

LossInit ==
    /\ lossIn \in [batch : SeqsUpTo(Example, MaxBatch) \ {<<>>}, ssl_alpha : AlphaValues]
    /\ lossOut = OutIdle
    /\ config = [num_iterations |-> 0, bs_steps |-> <<>>, bs_gamma |-> 1,
                 initial_bs |-> Len(lossIn.batch)]
    /\ args = [checkpoint_every |-> 1]
    /\ data = [train |-> Len(lossIn.batch), val |-> 0]
    /\ pc = "do_iteration"
    /\ Setup

\* one call of do_iteration on the batch: forward passes and loss aggregation
DoIterationLoss ==
    /\ pc = "do_iteration"
    /\ lossOut' = LossDict(lossIn)
    /\ pc' = "returned"
    /\ UNCHANGED <<config, args, data, iteration, batch_size, train_dataloader,
                   loaderBuilds, batch, valIdx, outDict, training, params, lastCall,
                   counters, valPassAt, managers, printed, writerClosed, raised,
                   lossIn>>

LossNext == DoIterationLoss

LossSpec == LossInit /\ [][LossNext]_vars

(***************************************************************************)
(* Properties of the training run (Spec)                                   *)
(***************************************************************************)
\* number of iterations whose scheduling step has run
SchedulesDone == IF pc = "schedule" THEN iteration - 1 ELSE iteration

\* number of iterations whose body has run to its end
IterationsDone == IF pc \in {"loop", "done"} THEN iteration ELSE iteration - 1

StepsUpTo(i) == {s \in Range(config.bs_steps) : s <= i}

CheckpointIterations(i) == {k \in 1..i : k % args.checkpoint_every = 0}

\* C1: once the scheduling step of iteration i has run the batch size is
\* initial_bs * bs_gamma^k, k the number of distinct entries of bs_steps that are
\* <= i; the training loader has been rebuilt, as a fresh cyclic loader with that
\* batch size, exactly at the iterations in bs_steps; the batch size has no other
\* value in any state of the run.
C1_BatchSizeSchedule ==
    LET i == SchedulesDone
    IN  /\ batch_size = config.initial_bs * Pow(config.bs_gamma, Cardinality(StepsUpTo(i)))
        /\ loaderBuilds = StepsUpTo(i)
        /\ train_dataloader.bs = batch_size
        /\ (pc # "schedule" /\ i >= 1 /\ i \in Range(config.bs_steps))
               => train_dataloader = NewCycle(batch_size)

C1_Witness ==
    /\ pc = "loop"
    /\ iteration = 3
    /\ config.bs_gamma = 2
    /\ Len(config.bs_steps) = 2
    /\ config.bs_steps[1] = config.bs_steps[2]
    /\ config.bs_steps[1] = 2
    /\ batch_size = 2 * config.initial_bs

\* What holds of checkpoint selection in every state: validation passes happen at
\* multiples of checkpoint_every only, every iteration that ran to its end stepped
\* each manager iff it is such a multiple, each step carries the manager's own
\* model's perplexity read after the pass consumed every validation batch, and
\* save_best is called at most once, after the last iteration and every step.
CheckpointSelectionSafe ==
    /\ valPassAt \subseteq CheckpointIterations(iteration)
    /\ CheckpointIterations(IterationsDone) \subseteq valPassAt
    /\ \A m \in {"pg", "qr"} :
         LET mgr == managers[m]
         IN  /\ Len(mgr.steps) = Cardinality(CheckpointIterations(IterationsDone))
             /\ \A k \in 1..Len(mgr.steps) :
                  /\ mgr.steps[k].iteration = k * args.checkpoint_every
                  /\ mgr.steps[k].model = m
                  /\ mgr.steps[k].passDone
                  /\ mgr.steps[k].batches = NumValBatches
             /\ mgr.saved = (IF pc = "done" THEN 1 ELSE 0)
             /\ (mgr.saved = 1) =>
                  /\ iteration = config.num_iterations
                  /\ mgr.savedAfter = Len(mgr.steps)

\* C2: a validation pass run to exhaustion followed by one step per manager happens
\* at iteration i iff i % checkpoint_every = 0; each manager is stepped with its own
\* model's perplexity, read after the pass has consumed every validation batch;
\* save_best is called on each manager exactly once, after the last iteration and
\* after every step. When the run has ended, every iteration it entered that is a
\* multiple of checkpoint_every has its step on both managers, and both have saved.
C2_CheckpointSelection ==
    /\ CheckpointSelectionSafe
    /\ pc \in {"done", "error"} =>
         \A m \in {"pg", "qr"} :
            /\ Len(managers[m].steps) = Cardinality(CheckpointIterations(iteration))
            /\ managers[m].saved = 1

\* C3: the run does not stop before the final state, and in the final state
\* do_iteration, optimizer.step and lr_scheduler.step have each run num_iterations
\* times, both managers have saved their best checkpoint and the writer is closed.
C3_RunTerminates ==
    /\ pc = "done" \/ ENABLED Next
    /\ pc = "done" =>
         /\ counters.train_calls = config.num_iterations
         /\ counters.opt_steps = config.num_iterations
         /\ counters.lr_steps = config.num_iterations
         /\ managers["pg"].saved = 1
         /\ managers["qr"].saved = 1
         /\ writerClosed

\* C4: the program prior stays in evaluation mode with the parameters it was loaded
\* with, and the optimizer updates the program generator and the question
\* reconstructor only.
C4_PriorFrozen ==
    /\ ~training["prior"]
    /\ params["prior"] = 0
    /\ params["pg"] = counters.opt_steps
    /\ params["qr"] = counters.opt_steps
    /\ OptimizerParams = {"pg", "qr"}

C4_Witness ==
    /\ pc = "done"
    /\ counters.opt_steps = 3
    /\ Cardinality(valPassAt) = 3
    /\ data.val = 3
    /\ loaderBuilds # {}

\* C7: every do_iteration call finds both models in the same mode, training mode in
\* training-loop calls and evaluation mode in validation calls; it performs zero_grad,
\* backward and optimizer.step iff it is a training-loop call; no call dereferences a
\* missing optimizer; parameters change only in training-loop calls; both models are
\* in training mode whenever a training iteration is about to start.
C7_ModesAgree ==
    /\ lastCall.kind # "none" =>
         /\ lastCall.pgMode = lastCall.qrMode
         /\ lastCall.pgMode = (lastCall.kind = "train")
         /\ lastCall.zero_grad = (lastCall.kind = "train")
         /\ lastCall.backward = (lastCall.kind = "train")
         /\ lastCall.step = (lastCall.kind = "train")
         /\ ~lastCall.error
    /\ raised # "AttributeError"
    /\ params["pg"] = counters.train_calls
    /\ params["qr"] = counters.train_calls
    /\ pc = "loop" => (training["pg"] /\ training["qr"])
    /\ pc \in {"val_loop", "qualitative", "metrics"} => (~training["pg"] /\ ~training["qr"])

C7_Witness ==
    /\ pc = "schedule"
    /\ iteration = 3
    /\ lastCall.kind = "train"
    /\ Cardinality(valPassAt) = 2
    /\ data.val = 3

\* the number of examples the comment above the qualitative loop announces
QualitativeAnnounced == 10

\* C8: after each validation pass the qualitative print shows min(10, n) examples of
\* the last validation batch (n its length), with the predictions computed for that
\* same batch.
C8_TenExamples ==
    pc = "metrics" =>
        /\ printed.count = Min(printed.batch.len, QualitativeAnnounced)
        /\ printed.batch = ValBatchAt(NumValBatches)
        /\ printed.pred = printed.batch

(***************************************************************************)
(* Properties of the loss aggregation (LossSpec)                           *)
(***************************************************************************)
\* the examples of the batch that carry program supervision
Supervised(b) == SelectSeq(b, LAMBDA e : e.supervision = 1)

\* mean of the program generator's loss over the supervised examples only
SupervisedMean(b) ==
    IF Supervised(b) = <<>> THEN <<0, 1>>
    ELSE Frac(SumSeq([k \in 1..Len(Supervised(b)) |-> Supervised(b)[k].pg]),
              Len(Supervised(b)))

\* C5: the objective is (mean of the reconstructor's loss over the whole batch) +
\* ssl_alpha * (mean of the generator's loss over the supervised examples only);
\* changing the generator's loss of an unsupervised example leaves it unchanged; a
\* batch without supervised examples contributes the reconstruction term only.
C5_MaskedObjective ==
    lossOut.set =>
        LET b == lossIn.batch
            allQr == Frac(SumSeq([k \in 1..Len(b) |-> b[k].qr]), Len(b))
        IN  /\ lossOut.objective = RAdd(allQr, RScale(lossIn.ssl_alpha, SupervisedMean(b)))
            /\ \A j \in 1..Len(b) : \A v \in LossValues \cup {7} :
                 b[j].supervision = 0 =>
                     LossObjective([lossIn EXCEPT !.batch[j].pg = v]) = lossOut.objective
            /\ (\A j \in 1..Len(b) : b[j].supervision = 0) => lossOut.objective = allQr

C5_Witness ==
    /\ lossOut.set
    /\ Len(lossIn.batch) = 3
    /\ lossIn.ssl_alpha = 2
    /\ lossIn.batch[1].supervision = 0 /\ lossIn.batch[1].pg = 3
    /\ lossIn.batch[2].supervision = 1 /\ lossIn.batch[2].pg = 1
    /\ lossIn.batch[3].supervision = 1 /\ lossIn.batch[3].pg = 0
    /\ lossOut.objective # QrBatchLoss(lossIn.batch)

\* C6: in the returned dictionary "reconstruction" is the question reconstructor's
\* batch loss, "supervision" is the program generator's supervision-masked batch
\* loss, and objective = reconstruction + ssl_alpha * supervision.
C6_LossDictLabels ==
    lossOut.set =>
        /\ lossOut.reconstruction = QrBatchLoss(lossIn.batch)
        /\ lossOut.supervision = PgBatchLoss(lossIn.batch)
        /\ lossOut.objective
             = RAdd(lossOut.reconstruction, RScale(lossIn.ssl_alpha, lossOut.supervision))

====
